---- MODULE Spec2Model ----
(***************************************************************************)
(* EV trip planner: the route-planning engine of src/models/astar.js.      *)
(*                                                                         *)
(* Units.  Node and station coordinates lie on one meridian, so that the   *)
(* haversine distance of calculateDistance is the absolute difference of   *)
(* the positions (km).  Edge distances are whole km.  Search costs and     *)
(* reported distances are kept in 1/10000 km so that the 0.95 and 1.2      *)
(* factors stay exact: a plain edge of d km costs d*100*100, a highway     *)
(* edge d*95*100, a poor edge d*100*120.  Energy is in 0.1 kWh, charging   *)
(* speed in 0.1 kWh per hour, and a duration is the exact fraction         *)
(* [num, den] of an hour.                                                  *)
(***************************************************************************)
EXTENDS Integers, Sequences, FiniteSets, TLC

VARIABLES
    nodes,                  \* this.nodes: sequence of [id, pos]
    edges,                  \* this.edges: sequence of [from, to, distance, condition, type]
    chargingStations,       \* this.chargingStations: sequence of station records
    vehicle,                \* this.vehicle
    adjacencyList,          \* this.adjacencyList
    nodeToChargingStation,  \* this.nodeToChargingStation: [keys, val] (insertion-ordered)
    maxDetourDistance,      \* this.maxDetourDistance
    debug,                  \* this.debug
    start, goal,            \* arguments of findPath
    pc,                     \* position inside findPath
    openSet, closedSet, gScore, fScore, cameFrom, edgeBetween,  \* findShortestPath locals
    expanded,               \* ghost: how often each node was taken as current
    shortestPathResult,     \* result of findShortestPath
    attempt,                \* "none", "tight" or "wide": which feasibility check runs
    radiusUsed,             \* the radius of the running feasibility check
    tightStations,          \* nearbyStations of the first attempt
    checkStations,          \* chargingStations argument of the running check
    segIdx,                 \* loop index i of checkPathFeasibility
    battery,                \* battery of checkPathFeasibility
    chargingStops,          \* chargingStops of checkPathFeasibility
    feasibilityResult,      \* result of the running/last checkPathFeasibility
    lastSegment,            \* ghost: what the last loop iteration saw and did
    log,                    \* log of the running/last checkPathFeasibility
    result,                 \* result of findPath
    plan,                   \* the caller: "route", "routeTwice", "sameEngine", "debugRoute"
    firstResult,            \* result of the caller's first findPath, once it calls again
    response,               \* what the /route or /debug-route handler answers
    googleMapsApiKey,       \* config.googleMapsApiKey: configured or not
    allSPKLU,               \* spkluFetcher.js allSPKLU: sequence of station ids
    isIndexingComplete,     \* spkluFetcher.js isIndexingComplete
    indexingProgress,       \* spkluFetcher.js indexingProgress
    dataFile,               \* data/spklu-data.json: NoFile or the stations saved
    indexingRuns,           \* per start request: where its startIndexingAllSPKLU stands
    progressResponse        \* the last answer of /spklu-indexing-progress

vars == <<nodes, edges, chargingStations, vehicle, adjacencyList,
          nodeToChargingStation, maxDetourDistance, start, goal, pc,
          openSet, closedSet, gScore, fScore, cameFrom, edgeBetween, expanded,
          shortestPathResult, attempt, radiusUsed, tightStations, checkStations,
          segIdx, battery, chargingStops, feasibilityResult, lastSegment, result,
          plan, firstResult, debug, log, response,
          googleMapsApiKey, allSPKLU, isIndexingComplete, indexingProgress, dataFile,
          indexingRuns, progressResponse>>

inputVars == <<nodes, edges, vehicle, adjacencyList, start, goal, debug>>
callerVars == <<plan, firstResult>>
crawlerVars == <<googleMapsApiKey, allSPKLU, isIndexingComplete, indexingProgress, dataFile,
                 indexingRuns, progressResponse>>
plannerVars == <<nodes, edges, chargingStations, vehicle, adjacencyList,
                 nodeToChargingStation, maxDetourDistance, start, goal, pc,
                 openSet, closedSet, gScore, fScore, cameFrom, edgeBetween, expanded,
                 shortestPathResult, attempt, radiusUsed, tightStations, checkStations,
                 segIdx, battery, chargingStops, feasibilityResult, lastSegment, result,
                 plan, firstResult, debug, log, response>>
searchVars == <<openSet, closedSet, gScore, fScore, cameFrom, edgeBetween, expanded>>
checkVars == <<attempt, radiusUsed, tightStations, checkStations, segIdx, battery,
               chargingStops, feasibilityResult, lastSegment, log>>

----------------------------------------------------------------------------
(* Bounds of the model *)

MaxEdges == 3       \* longest edge list of the road-network family
MaxStations == 2    \* longest station list of the station family
MaxRuns == 2        \* start-indexing requests served
TotalGrids == 3     \* grids that createGrids returns (782 in the source)

----------------------------------------------------------------------------
(* Generic helpers *)

Abs(x) == IF x < 0 THEN -x ELSE x

Range(s) == {s[k] : k \in 1..Len(s)}

SeqsUpTo(S, n) == UNION {[1..k -> S] : k \in 0..n}

\* the JavaScript undefined for a node id and for an edge record
NoNode == "undefined"
NoEdge == [node |-> NoNode]

Infinity == 1000000000

\* Array.prototype.indexOf / find over a sequence, 1-based: 0 if there is no match
RECURSIVE IndexFrom(_, _, _)
IndexFrom(s, x, k) ==
    IF k > Len(s) THEN 0
    ELSE IF s[k] = x THEN k
    ELSE IndexFrom(s, x, k + 1)

IndexOf(s, x) == IndexFrom(s, x, 1)

NodeIds == {nodes[k].id : k \in 1..Len(nodes)}

HasNode(id) == \E k \in 1..Len(nodes) : nodes[k].id = id

NodePos(id) == nodes[IndexOf([k \in 1..Len(nodes) |-> nodes[k].id], id)].pos

----------------------------------------------------------------------------
(* Cost and heuristic model *)

\* calculateDistance on one meridian: R * |dLat| = |p - q| km
calculateDistance(p, q) == Abs(p - q)

\* a physical distance in the unit of the search costs
Phys(d) == d * 100 * 100

heuristic(nodeId, goalId) ==
    IF ~HasNode(nodeId) \/ ~HasNode(goalId) THEN Infinity
    ELSE Phys(calculateDistance(NodePos(nodeId), NodePos(goalId)))

calculateEnergyConsumption(distance) == distance * vehicle.efficiency

calculateChargingTime(energyNeeded, chargingSpeed) ==
    [num |-> energyNeeded, den |-> chargingSpeed]

\* edgeWeight of findShortestPath (lines 261-269)
EdgeWeight(neighbor) ==
    neighbor.distance
      * (IF neighbor.type \in {"highway", "toll_road"} THEN 95 ELSE 100)
      * (IF neighbor.condition = "poor" THEN 120 ELSE 100)

----------------------------------------------------------------------------
(* Graph index *)

AdjEntry(e, other) ==
    [node |-> other, distance |-> e.distance, condition |-> e.condition, type |-> e.type]

\* variant: an edge is entered at its from node only
RECURSIVE AddEdges_OneWay(_, _, _)
AddEdges_OneWay(adj, es, k) ==
    IF k > Len(es) THEN adj
    ELSE AddEdges_OneWay([adj EXCEPT ![es[k].from] = Append(@, AdjEntry(es[k], es[k].to))],
                         es, k + 1)

\* lines 48-63: the loop over the edges
RECURSIVE AddEdges(_, _, _)
AddEdges(adj, es, k) ==
    IF k > Len(es) THEN adj
    ELSE LET e == es[k]
             a1 == [adj EXCEPT ![e.from] = Append(@, AdjEntry(e, e.to))]
             a2 == [a1 EXCEPT ![e.to] = Append(@, AdjEntry(e, e.from))]
         IN AddEdges(a2, es, k + 1)

buildAdjacencyList(ns, es) ==
    AddEdges([id \in {ns[k].id : k \in 1..Len(ns)} |-> <<>>], es, 1)

\* lines 50 and 57: adjacencyList[edge.from] or adjacencyList[edge.to] is undefined
\* for an id that is not a node id, and .push on it is a TypeError
DanglingEdge(ns, e) == {e.from, e.to} \ {ns[k].id : k \in 1..Len(ns)} /= {}

\* lines 49-63: the loop over the edges throws at the first dangling edge
buildAdjacencyListThrows(ns, es) == \E k \in 1..Len(es) : DanglingEdge(ns, es[k])

----------------------------------------------------------------------------
(* Station locator *)

\* the nearest node of a position: the first node with the least distance
RECURSIVE NearestFrom(_, _, _, _, _)
NearestFrom(ns, p, k, best, bestDist) ==
    IF k > Len(ns) THEN [node |-> best, dist |-> bestDist]
    ELSE LET d == calculateDistance(p, ns[k].pos)
         IN IF d < bestDist THEN NearestFrom(ns, p, k + 1, ns[k].id, d)
            ELSE NearestFrom(ns, p, k + 1, best, bestDist)

EmptyMap == [keys |-> <<>>, val |-> [id \in {} |-> <<>>]]

MapHas(m, id) == id \in DOMAIN m.val

MapSet(m, id, v) ==
    [keys |-> IF MapHas(m, id) THEN m.keys ELSE Append(m.keys, id),
     val |-> [x \in DOMAIN m.val \cup {id} |-> IF x = id THEN v ELSE m.val[x]]]

RECURSIVE MapStations(_, _, _, _)
MapStations(ns, sts, k, m) ==
    IF k > Len(sts) THEN m
    ELSE LET st == sts[k]
             near == NearestFrom(ns, st.pos, 1, NoNode, Infinity)
             rec == [id |-> st.id, pos |-> st.pos, connectorTypes |-> st.connectorTypes,
                     chargingSpeed |-> st.chargingSpeed,
                     distanceToNode |-> near.dist, distanceToPath |-> {}]
         IN IF near.node = NoNode THEN MapStations(ns, sts, k + 1, m)
            ELSE MapStations(ns, sts, k + 1,
                    MapSet(m, near.node,
                           IF MapHas(m, near.node) THEN Append(m.val[near.node], rec)
                           ELSE <<rec>>))

mapChargingStationsToNodes(ns, sts) == MapStations(ns, sts, 1, EmptyMap)

\* variant: the mapping stores the supplied station object itself
SuppliedObject_Shared(supplied, stored) == stored

\* lines 98-101: the mapping stores a copy ({...station, distanceToNode}), so what
\* the engine writes into its stored record does not reach the supplied object
SuppliedObject(supplied, stored) == supplied

\* the supplied station objects after the engine wrote to its mapping
SuppliedObjects(sts, ntc) ==
    [k \in 1..Len(sts) |->
        LET stored == {r \in UNION {Range(ntc.val[n]) : n \in DOMAIN ntc.val} :
                          r.id = sts[k].id}
        IN IF stored = {} THEN sts[k]
           ELSE SuppliedObject(sts[k], CHOOSE r \in stored : TRUE)]

----------------------------------------------------------------------------
(* Shortest-path search: findShortestPath, one action per loop iteration *)

\* lines 223-231: the first node of openSet (insertion order) with the least fScore
RECURSIVE LowestFrom(_, _, _, _, _)
LowestFrom(open, f, k, current, lowestFScore) ==
    IF k > Len(open) THEN current
    ELSE IF f[open[k]] < lowestFScore
         THEN LowestFrom(open, f, k + 1, open[k], f[open[k]])
         ELSE LowestFrom(open, f, k + 1, current, lowestFScore)

SelectCurrent == LowestFrom(openSet, fScore, 1, NoNode, Infinity)

SetDelete(open, x) == SelectSeq(open, LAMBDA y : y /= x)

\* variant: a closed neighbour ends the loop (break instead of continue)
RECURSIVE Relax_BreakOnClosed(_, _, _, _, _)
Relax_BreakOnClosed(st, current, closed, nbrs, k) ==
    IF k > Len(nbrs) THEN st
    ELSE LET neighbor == nbrs[k]
             neighborId == neighbor.node
             tentativeGScore == st.g[current] + EdgeWeight(neighbor)
             inOpen == neighborId \in Range(st.open)
         IN IF neighborId \in closed THEN st
            ELSE IF inOpen /\ tentativeGScore >= st.g[neighborId]
                 THEN Relax_BreakOnClosed(st, current, closed, nbrs, k + 1)
            ELSE Relax_BreakOnClosed(
                       [open |-> IF inOpen THEN st.open ELSE Append(st.open, neighborId),
                        g |-> [st.g EXCEPT ![neighborId] = tentativeGScore],
                        f |-> [st.f EXCEPT ![neighborId] =
                                  tentativeGScore + heuristic(neighborId, goal)],
                        came |-> [st.came EXCEPT ![neighborId] = current],
                        eb |-> [st.eb EXCEPT ![<<current, neighborId>>] = neighbor]],
                       current, closed, nbrs, k + 1)

\* lines 252-287: the loop over the neighbours of current
RECURSIVE Relax(_, _, _, _, _)
Relax(st, current, closed, nbrs, k) ==
    IF k > Len(nbrs) THEN st
    ELSE LET neighbor == nbrs[k]
             neighborId == neighbor.node
             tentativeGScore == st.g[current] + EdgeWeight(neighbor)
             inOpen == neighborId \in Range(st.open)
         IN IF neighborId \in closed THEN Relax(st, current, closed, nbrs, k + 1)
            ELSE IF inOpen /\ tentativeGScore >= st.g[neighborId]
                 THEN Relax(st, current, closed, nbrs, k + 1)
            ELSE Relax([open |-> IF inOpen THEN st.open ELSE Append(st.open, neighborId),
                        g |-> [st.g EXCEPT ![neighborId] = tentativeGScore],
                        f |-> [st.f EXCEPT ![neighborId] =
                                  tentativeGScore + heuristic(neighborId, goal)],
                        came |-> [st.came EXCEPT ![neighborId] = current],
                        eb |-> [st.eb EXCEPT ![<<current, neighborId>>] = neighbor]],
                       current, closed, nbrs, k + 1)

\* variant: the walk back stops one node short of the start
RECURSIVE reconstructPath_WithoutStart(_, _)
reconstructPath_WithoutStart(came, current) ==
    IF came[current] = NoNode THEN <<>>
    ELSE reconstructPath_WithoutStart(came, came[current]) \o <<current>>

RECURSIVE reconstructPath(_, _)
reconstructPath(came, current) ==
    IF came[current] = NoNode THEN <<current>>
    ELSE reconstructPath(came, came[current]) \o <<current>>

\* the first edge of es joining a and b in either direction, NoEdge if none
RECURSIVE FindEdgeFrom(_, _, _, _)
FindEdgeFrom(es, a, b, k) ==
    IF k > Len(es) THEN NoEdge
    ELSE IF (es[k].from = a /\ es[k].to = b) \/ (es[k].from = b /\ es[k].to = a)
         THEN es[k]
         ELSE FindEdgeFrom(es, a, b, k + 1)

FindEdge(es, a, b) == FindEdgeFrom(es, a, b, 1)

RECURSIVE EdgesFrom(_, _, _)
EdgesFrom(path, eb, i) ==
    IF i >= Len(path) THEN <<>>
    ELSE LET from == path[i]
             to == path[i + 1]
             edge == IF eb[<<from, to>>] /= NoEdge THEN eb[<<from, to>>]
                     ELSE eb[<<to, from>>]
             originalEdge == FindEdge(edges, from, to)
             here == IF edge /= NoEdge
                     THEN <<[from |-> from, to |-> to, node |-> edge.node,
                             distance |-> edge.distance, condition |-> edge.condition,
                             type |-> edge.type]>>
                     ELSE IF originalEdge /= NoEdge THEN <<originalEdge>>
                     ELSE <<>>
         IN here \o EdgesFrom(path, eb, i + 1)

getEdgesForPath(path, eb) == EdgesFrom(path, eb, 1)

Pending == [pending |-> TRUE]

\* variant: only the origin is looked up
EndpointMissing_OriginOnly(startNodeId, goalNodeId) == ~HasNode(startNodeId)

\* line 188: !this.nodes.find(n => n.id === start) || !this.nodes.find(n => n.id === goal)
EndpointMissing(startNodeId, goalNodeId) == ~HasNode(startNodeId) \/ ~HasNode(goalNodeId)

\* lines 188-193
FindShortestPathNodeNotFound ==
    /\ pc = "findPath"
    /\ EndpointMissing(start, goal)
    /\ shortestPathResult' =
          [success |-> FALSE, error |-> [kind |-> "NodeNotFound"]]
    /\ pc' = "searched"
    /\ UNCHANGED <<crawlerVars, response, inputVars, callerVars, chargingStations,
                   nodeToChargingStation, maxDetourDistance, searchVars, checkVars, result>>

\* lines 195-219
FindShortestPathInit ==
    /\ pc = "findPath"
    /\ ~EndpointMissing(start, goal)
    /\ openSet' = <<start>>
    /\ closedSet' = {}
    /\ gScore' = [id \in NodeIds |-> IF id = start THEN 0 ELSE Infinity]
    /\ fScore' = [id \in NodeIds |-> IF id = start THEN heuristic(start, goal) ELSE Infinity]
    /\ cameFrom' = [id \in NodeIds |-> NoNode]
    /\ edgeBetween' = [p \in NodeIds \X NodeIds |-> NoEdge]
    /\ expanded' = [id \in NodeIds |-> 0]
    /\ pc' = "search"
    /\ UNCHANGED <<crawlerVars, response, inputVars, callerVars, chargingStations,
                   nodeToChargingStation, maxDetourDistance, shortestPathResult, checkVars,
                   result>>

\* lines 221-245: the goal is taken as current
SearchReachGoal ==
    /\ pc = "search"
    /\ Len(openSet) > 0
    /\ SelectCurrent = goal
    /\ LET path == reconstructPath(cameFrom, goal)
       IN shortestPathResult' =
             [success |-> TRUE, path |-> path,
              edges |-> getEdgesForPath(path, edgeBetween),
              totalDistance |-> gScore[goal]]
    /\ pc' = "searched"
    /\ UNCHANGED <<crawlerVars, response, inputVars, callerVars, chargingStations,
                   nodeToChargingStation, maxDetourDistance, searchVars, checkVars, result>>

\* lines 221-288: another node is taken as current and expanded
SearchExpand ==
    /\ pc = "search"
    /\ Len(openSet) > 0
    /\ SelectCurrent /= goal
    /\ LET current == SelectCurrent
           closed == closedSet \cup {current}
           st == Relax([open |-> SetDelete(openSet, current), g |-> gScore,
                        f |-> fScore, came |-> cameFrom, eb |-> edgeBetween],
                       current, closed, adjacencyList[current], 1)
       IN /\ openSet' = st.open
          /\ closedSet' = closed
          /\ gScore' = st.g
          /\ fScore' = st.f
          /\ cameFrom' = st.came
          /\ edgeBetween' = st.eb
          /\ expanded' = [expanded EXCEPT ![current] = @ + 1]
    /\ UNCHANGED <<crawlerVars, response, inputVars, callerVars, chargingStations,
                   nodeToChargingStation, maxDetourDistance, pc, shortestPathResult,
                   checkVars, result>>

\* lines 290-294: the frontier is empty
SearchExhausted ==
    /\ pc = "search"
    /\ Len(openSet) = 0
    /\ shortestPathResult' =
          [success |-> FALSE, error |-> [kind |-> "NoPathFound"]]
    /\ pc' = "searched"
    /\ UNCHANGED <<crawlerVars, response, inputVars, callerVars, chargingStations,
                   nodeToChargingStation, maxDetourDistance, searchVars, checkVars, result>>

----------------------------------------------------------------------------
(* Nearby-station resolver: findNearbyChargingStations *)

\* lines 348-352: the stations mapped to the nodes of the path
RECURSIVE OnPathStations(_, _, _, _)
OnPathStations(path, ntc, i, m) ==
    IF i > Len(path) THEN m
    ELSE IF MapHas(ntc, path[i])
         THEN OnPathStations(path, ntc, i + 1, MapSet(m, path[i], ntc.val[path[i]]))
         ELSE OnPathStations(path, ntc, i + 1, m)

\* lines 365-381: the first path node with the least distance to position p
RECURSIVE ClosestFrom(_, _, _, _, _)
ClosestFrom(path, p, i, closestPathNode, minDistanceToPath) ==
    IF i > Len(path) THEN [node |-> closestPathNode, dist |-> minDistanceToPath]
    ELSE IF ~HasNode(path[i])
         THEN ClosestFrom(path, p, i + 1, closestPathNode, minDistanceToPath)
    ELSE LET distance == calculateDistance(p, NodePos(path[i]))
         IN IF distance < minDistanceToPath
            THEN ClosestFrom(path, p, i + 1, path[i], distance)
            ELSE ClosestFrom(path, p, i + 1, closestPathNode, minDistanceToPath)

WithDistanceToPath(stations, d) ==
    [k \in 1..Len(stations) |-> [stations[k] EXCEPT !.distanceToPath = {d}]]

\* variant: a node exactly at the detour distance is left out
WithinDetour_Exclusive(minDistanceToPath, maxDetour) == minDistanceToPath < maxDetour

\* line 384
WithinDetour(minDistanceToPath, maxDetour) == minDistanceToPath <= maxDetour

\* lines 355-410: the stations of the other nodes, in the key order of the mapping;
\* st.map is nearbyStations, st.ntc is this.nodeToChargingStation
RECURSIVE OffPathStations(_, _, _, _, _)
OffPathStations(path, maxDetour, keys, k, st) ==
    IF k > Len(keys) THEN st
    ELSE LET nodeId == keys[k]
             stationsAtNode == st.ntc.val[nodeId]
             closest == ClosestFrom(path, NodePos(nodeId), 1, NoNode, Infinity)
         IN IF nodeId \in Range(path) \/ ~HasNode(nodeId)
            THEN OffPathStations(path, maxDetour, keys, k + 1, st)
            ELSE IF WithinDetour(closest.dist, maxDetour)
            THEN IF MapHas(st.map, closest.node)
                 THEN \* lines 386-398: the station objects themselves get the distance
                      LET marked == WithDistanceToPath(stationsAtNode, closest.dist)
                      IN OffPathStations(path, maxDetour, keys, k + 1,
                            [map |-> MapSet(st.map, closest.node,
                                            st.map.val[closest.node] \o marked),
                             ntc |-> MapSet(st.ntc, nodeId, marked)])
                 ELSE \* lines 399-408: copies of the station objects get the distance
                      OffPathStations(path, maxDetour, keys, k + 1,
                            [map |-> MapSet(st.map, closest.node,
                                            WithDistanceToPath(stationsAtNode, closest.dist)),
                             ntc |-> st.ntc])
            ELSE OffPathStations(path, maxDetour, keys, k + 1, st)

\* variant: the lists attached to the path nodes are stored in the engine's mapping
findNearbyChargingStations_Stored(path, maxDetour, ntc) ==
    LET out == OffPathStations(path, maxDetour, ntc.keys, 1,
                               [map |-> OnPathStations(path, ntc, 1, EmptyMap), ntc |-> ntc])
    IN [map |-> out.map,
        ntc |-> [keys |-> out.ntc.keys
                            \o SelectSeq(out.map.keys, LAMBDA n : ~MapHas(out.ntc, n)),
                 val |-> [n \in DOMAIN out.ntc.val \cup DOMAIN out.map.val |->
                             IF MapHas(out.map, n) THEN out.map.val[n]
                             ELSE out.ntc.val[n]]]]

\* the returned mapping (.map) and the engine's station mapping afterwards (.ntc)
findNearbyChargingStations(path, maxDetour, ntc) ==
    OffPathStations(path, maxDetour, ntc.keys, 1,
                    [map |-> OnPathStations(path, ntc, 1, EmptyMap), ntc |-> ntc])

----------------------------------------------------------------------------
(* Feasibility-checked charging planner: checkPathFeasibility *)

\* variant: the connector is not looked at
CompatibleConnector_Unchecked(station) == TRUE

\* lines 478-481 and 540-543
CompatibleConnector(station) == vehicle.connectorType \in station.connectorTypes

\* variant: the stop is accounted as a charge from an empty battery
RequiredStop_FromEmpty(nodeId, station, energyToCharge) ==
    [nodeId |-> nodeId, stationId |-> station.id, location |-> station.pos,
     chargingTime |-> calculateChargingTime(vehicle.batteryCapacity, station.chargingSpeed),
     energyAdded |-> vehicle.batteryCapacity, isOptional |-> FALSE, distanceToPath |-> 0]

RequiredStop(nodeId, station, energyToCharge) ==
    [nodeId |-> nodeId, stationId |-> station.id, location |-> station.pos,
     chargingTime |-> calculateChargingTime(energyToCharge, station.chargingSpeed),
     energyAdded |-> energyToCharge, isOptional |-> FALSE, distanceToPath |-> 0]

\* variant: every arrival counts as below the margin
BelowSafetyMargin_Always(bat, batteryCapacity) == TRUE

\* variant: the margin is 10% instead of 20%
BelowSafetyMargin_TenPercent(bat, batteryCapacity) == bat * 100 < 10 * batteryCapacity

\* lines 533-535: batteryPercentage < 20
BelowSafetyMargin(bat, batteryCapacity) == bat * 100 < 20 * batteryCapacity

\* lines 440-570: one iteration of the loop, for the 1-based segment index i
SegmentOutcome(path, es, stationMap, i, bat, stops) ==
    LET batteryCapacity == vehicle.batteryCapacity
        fromNodeId == path[i]
        toNodeId == path[i + 1]
        edge == FindEdge(es, fromNodeId, toNodeId)
        energyNeeded == calculateEnergyConsumption(edge.distance)
        mustCharge == energyNeeded > bat
        station == stationMap.val[fromNodeId][1]
        forced == mustCharge /\ MapHas(stationMap, fromNodeId) /\ CompatibleConnector(station)
        stops1 == IF forced
                  THEN Append(stops, RequiredStop(fromNodeId, station, batteryCapacity - bat))
                  ELSE stops
        bat1 == IF forced THEN batteryCapacity ELSE bat
        bat2 == bat1 - energyNeeded
        nextStation == stationMap.val[toNodeId][1]
        defensive == /\ BelowSafetyMargin(bat2, batteryCapacity)
                     /\ i < Len(path) - 1
                     /\ MapHas(stationMap, toNodeId)
                     /\ CompatibleConnector(nextStation)
        stops2 == IF defensive
                  THEN Append(stops1, RequiredStop(toNodeId, nextStation, batteryCapacity - bat2))
                  ELSE stops1
        bat3 == IF defensive THEN batteryCapacity ELSE bat2
        Seen(outcome, didForce, didDefend, after) ==
            [outcome |-> outcome, from |-> fromNodeId, to |-> toNodeId,
             batteryBefore |-> bat, energyNeeded |-> energyNeeded,
             forced |-> didForce, defensive |-> didDefend, batteryAfterSegment |-> after]
    IN IF edge = NoEdge
       THEN [ok |-> FALSE, battery |-> bat, stops |-> stops,
             error |-> [kind |-> "NoEdge", at |-> fromNodeId, to |-> toNodeId],
             seen |-> [outcome |-> "NoEdge", from |-> fromNodeId, to |-> toNodeId]]
       ELSE IF mustCharge /\ ~MapHas(stationMap, fromNodeId)
       THEN [ok |-> FALSE, battery |-> bat, stops |-> stops,
             error |-> [kind |-> "NoStation", at |-> fromNodeId, to |-> toNodeId],
             seen |-> Seen("NoStation", FALSE, FALSE, bat)]
       ELSE IF mustCharge /\ ~CompatibleConnector(station)
       THEN [ok |-> FALSE, battery |-> bat, stops |-> stops,
             error |-> [kind |-> "NoCompatibleConnector", at |-> fromNodeId, to |-> toNodeId],
             seen |-> Seen("NoCompatibleConnector", FALSE, FALSE, bat)]
       ELSE [ok |-> TRUE, battery |-> bat3, stops |-> stops2,
             error |-> [kind |-> "none"],
             seen |-> Seen("traversed", forced, defensive, bat2)]

\* variant: the entries are pushed whether debug is set or not
Logged_Always(entries) == entries

\* if (this.debug) log.push(...)
Logged(entries) == IF debug THEN entries ELSE <<>>

\* line 437
LogOfStart == <<"Starting with full battery">>

\* lines 451, 463-466, 484, 509-512, 515, 528, 563-567: the entries of one iteration
LogOfSegment(seen) ==
    IF seen.outcome = "NoEdge" THEN <<"Error: No edge found">>
    ELSE <<"Segment", "Current battery">>
           \o (IF seen.outcome = "NoStation" THEN <<"Error: No charging station">>
               ELSE IF seen.outcome = "NoCompatibleConnector"
                    THEN <<"Error: No compatible charging connector">>
               ELSE (IF seen.forced THEN <<"Charging", "Battery after charging">> ELSE <<>>)
                      \o <<"After segment">>
                      \o (IF seen.defensive
                          THEN <<"Low battery", "Added", "Battery after charging">>
                          ELSE <<>>))

\* lines 440-578: the loop from segment i on, and the result of the function
RECURSIVE CheckFrom(_, _, _, _, _, _)
CheckFrom(path, es, stationMap, i, bat, stops) ==
    IF i >= Len(path)
    THEN [feasible |-> TRUE, chargingStops |-> stops, finalBatteryLevel |-> bat]
    ELSE LET out == SegmentOutcome(path, es, stationMap, i, bat, stops)
         IN IF out.ok THEN CheckFrom(path, es, stationMap, i + 1, out.battery, out.stops)
            ELSE [feasible |-> FALSE, error |-> out.error]

\* lines 422-579
checkPathFeasibility(path, es, stationMap) ==
    CheckFrom(path, es, stationMap, 1, vehicle.batteryCapacity, <<>>)

----------------------------------------------------------------------------
(* Trip time: calculateTripTime, in exact fractions of an hour *)

FracAdd(a, b) == [num |-> a.num * b.den + b.num * a.den, den |-> a.den * b.den]

FracEq(a, b) == a.num * b.den = b.num * a.den

RECURSIVE RequiredChargingTime(_, _)
RequiredChargingTime(stops, k) ==
    IF k > Len(stops) THEN [num |-> 0, den |-> 1]
    ELSE IF ~stops[k].isOptional
         THEN FracAdd(stops[k].chargingTime, RequiredChargingTime(stops, k + 1))
         ELSE RequiredChargingTime(stops, k + 1)

\* variant: no rest time is added
calculateTripTime_WithoutRest(distance, stops) ==
    FracAdd([num |-> distance, den |-> 60], RequiredChargingTime(stops, 1))

\* distance in km; drivingTime = distance / 60, restTime = floor(drivingTime / 2) * 0.25
calculateTripTime(distance, stops) ==
    LET drivingTime == [num |-> distance, den |-> 60]
        restTime == [num |-> distance \div 120, den |-> 4]
    IN FracAdd(FracAdd(drivingTime, RequiredChargingTime(stops, 1)), restTime)

----------------------------------------------------------------------------
(* Route assembler: findPathWithChargingStations and findPath *)

RECURSIVE SumDistance(_, _)
SumDistance(es, k) == IF k > Len(es) THEN 0 ELSE es[k].distance + SumDistance(es, k + 1)

\* variant: a node with a required stop gets an optional stop as well
RECURSIVE AdditionalStops_IgnoringUsed(_, _, _, _)
AdditionalStops_IgnoringUsed(m, path, stops, k) ==
    IF k > Len(m.keys) THEN <<>>
    ELSE LET nodeId == m.keys[k]
             station == m.val[nodeId][1]
         IN IF nodeId \notin Range(path)
            THEN AdditionalStops_IgnoringUsed(m, path, stops, k + 1)
            ELSE <<[nodeId |-> nodeId, stationId |-> station.id, location |-> station.pos,
                    chargingTime |-> [num |-> 0, den |-> 1], energyAdded |-> 0,
                    isOptional |-> TRUE,
                    distanceToPath |-> IF station.distanceToPath = {} THEN 0
                                       ELSE CHOOSE d \in station.distanceToPath : TRUE]>>
                 \o AdditionalStops_IgnoringUsed(m, path, stops, k + 1)

\* lines 686-706: an optional stop for every node of the mapping without a required stop
RECURSIVE AdditionalStops(_, _, _, _)
AdditionalStops(m, path, stops, k) ==
    IF k > Len(m.keys) THEN <<>>
    ELSE LET nodeId == m.keys[k]
             station == m.val[nodeId][1]
             used == \E j \in 1..Len(stops) : stops[j].nodeId = nodeId
         IN IF used \/ nodeId \notin Range(path)
            THEN AdditionalStops(m, path, stops, k + 1)
            ELSE <<[nodeId |-> nodeId, stationId |-> station.id, location |-> station.pos,
                    chargingTime |-> [num |-> 0, den |-> 1], energyAdded |-> 0,
                    isOptional |-> TRUE,
                    distanceToPath |-> IF station.distanceToPath = {} THEN 0
                                       ELSE CHOOSE d \in station.distanceToPath : TRUE]>>
                 \o AdditionalStops(m, path, stops, k + 1)

\* lines 709-711: a stable sort by the position of the stop's node in the path
RECURSIVE InsertByPathIndex(_, _, _)
InsertByPathIndex(sorted, stop, path) ==
    IF sorted = <<>> THEN <<stop>>
    ELSE IF IndexOf(path, stop.nodeId) < IndexOf(path, Head(sorted).nodeId)
         THEN <<stop>> \o sorted
         ELSE <<Head(sorted)>> \o InsertByPathIndex(Tail(sorted), stop, path)

RECURSIVE SortByPathIndex(_, _, _)
SortByPathIndex(stops, path, k) ==
    IF k = 0 THEN <<>>
    ELSE InsertByPathIndex(SortByPathIndex(stops, path, k - 1), stops[k], path)

NoSegment == [outcome |-> "none"]
NoWarning == "undefined"
WiderWarning == "Had to use charging stations farther from the main route"

\* variant: the failure carries no error
SearchFailure_WithoutError(searched) == [success |-> FALSE]

\* findPath lines 647-650
SearchFailure(searched) == [success |-> FALSE, error |-> searched.error]

\* findPath lines 646-651: the search failed
FindPathSearchFailed ==
    /\ plan /= "debugRoute"
    /\ pc = "searched"
    /\ ~shortestPathResult.success
    /\ result' = SearchFailure(shortestPathResult)
    /\ pc' = "done"
    /\ UNCHANGED <<crawlerVars, response, inputVars, callerVars, chargingStations,
                   nodeToChargingStation, maxDetourDistance, searchVars, shortestPathResult,
                   checkVars>>

\* findPathWithChargingStations lines 589-592: the first check starts
BeginTightCheck ==
    /\ pc = "searched"
    /\ shortestPathResult.success
    /\ LET near == findNearbyChargingStations(shortestPathResult.path, maxDetourDistance,
                                              nodeToChargingStation)
       IN /\ checkStations' = near.map
          /\ tightStations' = near.map
          /\ nodeToChargingStation' = near.ntc
          /\ chargingStations' = SuppliedObjects(chargingStations, near.ntc)
    /\ attempt' = "tight"
    /\ radiusUsed' = maxDetourDistance
    /\ log' = Logged(LogOfStart)
    /\ segIdx' = 1
    /\ battery' = vehicle.batteryCapacity
    /\ chargingStops' = <<>>
    /\ feasibilityResult' = Pending
    /\ lastSegment' = NoSegment
    /\ pc' = "check"
    /\ UNCHANGED <<crawlerVars, response, inputVars, callerVars, maxDetourDistance,
                   searchVars, shortestPathResult, result>>

\* checkPathFeasibility lines 440-570: one segment of the path
CheckSegment ==
    /\ pc = "check"
    /\ segIdx < Len(shortestPathResult.path)
    /\ LET out == SegmentOutcome(shortestPathResult.path, shortestPathResult.edges,
                                 checkStations, segIdx, battery, chargingStops)
       IN /\ lastSegment' = out.seen
          /\ log' = log \o Logged(LogOfSegment(out.seen))
          /\ battery' = out.battery
          /\ chargingStops' = out.stops
          /\ IF out.ok
             THEN /\ segIdx' = segIdx + 1
                  /\ UNCHANGED <<feasibilityResult, pc>>
             ELSE /\ feasibilityResult' = [feasible |-> FALSE, error |-> out.error]
                  /\ pc' = "checked"
                  /\ UNCHANGED segIdx
    /\ UNCHANGED <<crawlerVars, response, inputVars, callerVars, chargingStations,
                   nodeToChargingStation, maxDetourDistance, searchVars, shortestPathResult,
                   attempt, radiusUsed, tightStations, checkStations, result>>

\* checkPathFeasibility lines 572-578: the whole path was traversed
CheckComplete ==
    /\ pc = "check"
    /\ segIdx >= Len(shortestPathResult.path)
    /\ feasibilityResult' = [feasible |-> TRUE, chargingStops |-> chargingStops,
                             finalBatteryLevel |-> battery]
    /\ pc' = "checked"
    /\ UNCHANGED <<crawlerVars, response, inputVars, callerVars, chargingStations,
                   nodeToChargingStation, maxDetourDistance, searchVars, shortestPathResult,
                   attempt, radiusUsed, tightStations, checkStations, segIdx, battery,
                   chargingStops, lastSegment, log, result>>

\* findPathWithChargingStations lines 606-612: the second check starts
WidenedRadius == 10

RetryWiderCheck ==
    /\ pc = "checked"
    /\ attempt = "tight"
    /\ ~feasibilityResult.feasible
    /\ LET near == findNearbyChargingStations(shortestPathResult.path, WidenedRadius,
                                              nodeToChargingStation)
       IN /\ checkStations' = near.map
          /\ nodeToChargingStation' = near.ntc
          /\ chargingStations' = SuppliedObjects(chargingStations, near.ntc)
    /\ attempt' = "wide"
    /\ radiusUsed' = WidenedRadius
    /\ log' = Logged(LogOfStart)
    /\ segIdx' = 1
    /\ battery' = vehicle.batteryCapacity
    /\ chargingStops' = <<>>
    /\ feasibilityResult' = Pending
    /\ lastSegment' = NoSegment
    /\ pc' = "check"
    /\ UNCHANGED <<crawlerVars, response, inputVars, callerVars, maxDetourDistance,
                   searchVars, shortestPathResult, tightStations, result>>

\* variant: the failure carries the error only
PartialResult_ErrorOnly(error, searched) == [success |-> FALSE, error |-> error]

\* findPath lines 661-667: the failure that carries the path of the search
PartialResult(error, searched) ==
    [success |-> FALSE, error |-> error, partialPath |-> searched.path,
     totalDistance |-> searched.totalDistance]

\* lines 627-632 and findPath lines 659-668: both checks failed
FindPathInfeasible ==
    /\ plan /= "debugRoute"
    /\ pc = "checked"
    /\ attempt = "wide"
    /\ ~feasibilityResult.feasible
    /\ result' = PartialResult(feasibilityResult.error, shortestPathResult)
    /\ pc' = "done"
    /\ UNCHANGED <<crawlerVars, response, inputVars, callerVars, chargingStations,
                   nodeToChargingStation, maxDetourDistance, searchVars, shortestPathResult,
                   checkVars>>

\* variant: every success carries the warning
Warning_Always(widened) == WiderWarning

\* lines 595-602 (no warning) and 616-624 (the warning of the second attempt)
Warning(widened) == IF widened THEN WiderWarning ELSE NoWarning

\* lines 594-603, 614-625 and findPath lines 670-724: a check succeeded
FindPathSuccess ==
    /\ plan /= "debugRoute"
    /\ pc = "checked"
    /\ feasibilityResult.feasible
    /\ LET path == shortestPathResult.path
           km == SumDistance(shortestPathResult.edges, 1)
           required == feasibilityResult.chargingStops
           near == findNearbyChargingStations(path, maxDetourDistance, nodeToChargingStation)
           additional == AdditionalStops(near.map, path, required, 1)
       IN /\ result' = [success |-> TRUE, path |-> path,
                        chargingStops |->
                            required \o SortByPathIndex(additional, path, Len(additional)),
                        totalDistance |-> Phys(km),
                        estimatedTime |-> calculateTripTime(km, required),
                        warning |-> Warning(attempt = "wide")]
          /\ nodeToChargingStation' = near.ntc
          /\ chargingStations' = SuppliedObjects(chargingStations, near.ntc)
    /\ pc' = "done"
    /\ UNCHANGED <<crawlerVars, response, inputVars, callerVars, maxDetourDistance,
                   searchVars, shortestPathResult, checkVars>>

----------------------------------------------------------------------------
(* The /route handler after findPath: rest stops and the response *)

NoResponse == [status |-> 0]

\* routes.js lines 487-488: two hours of driving before a rest, at 60 km/h
drivingHoursPerSegment == 2
AverageSpeed == 60
RestEveryKm == drivingHoursPerSegment * AverageSpeed

\* routes.js lines 492-520: the loop over the segments of the path
RECURSIVE RestStopsFrom(_, _, _, _, _)
RestStopsFrom(path, stops, i, cumulativeDistance, lastRestStopIndex) ==
    IF i >= Len(path) THEN <<>>
    ELSE LET nextNodeId == path[i + 1]
             edge == FindEdge(edges, path[i], nextNodeId)
         IN IF edge = NoEdge
            THEN RestStopsFrom(path, stops, i + 1, cumulativeDistance, lastRestStopIndex)
            ELSE LET distance == cumulativeDistance + edge.distance
                     rest == /\ distance >= RestEveryKm * (lastRestStopIndex + 1)
                             /\ ~\E k \in 1..Len(stops) : stops[k].nodeId = nextNodeId
                 IN IF rest
                    THEN <<[nodeId |-> nextNodeId, location |-> NodePos(nextNodeId),
                            restTimeMinutes |-> 15]>>
                           \o RestStopsFrom(path, stops, i + 1, distance,
                                            lastRestStopIndex + 1)
                    ELSE RestStopsFrom(path, stops, i + 1, distance, lastRestStopIndex)

\* routes.js lines 483-521: totalDrivingTime > drivingHoursPerSegment
RestStops(res) ==
    IF res.totalDistance > Phys(RestEveryKm)
    THEN RestStopsFrom(res.path, res.chargingStops, 1, 0, 0)
    ELSE <<>>

\* Math.round of a fraction that is not negative
Round(numerator, denominator) == (2 * numerator + denominator) \div (2 * denominator)

\* routes.js lines 473-480: the stops with the location of their node and the minutes
chargingStopsWithDetails(stops) ==
    [k \in 1..Len(stops) |->
        [nodeId |-> stops[k].nodeId, stationId |-> stops[k].stationId,
         chargingTime |-> stops[k].chargingTime, energyAdded |-> stops[k].energyAdded,
         isOptional |-> stops[k].isOptional, distanceToPath |-> stops[k].distanceToPath,
         location |-> NodePos(stops[k].nodeId),
         chargingTimeMinutes |-> Round(stops[k].chargingTime.num * 60,
                                       stops[k].chargingTime.den)]]

\* routes.js lines 455-545: the answer to the findPath result
RouteRespond ==
    /\ plan \in {"route", "routeTwice"}
    /\ pc = "done"
    /\ response' =
          IF ~result.success
          THEN [status |-> 404, success |-> FALSE, error |-> result.error]
          ELSE [status |-> 200, success |-> TRUE,
                route |-> [path |-> result.path,
                           chargingStops |-> chargingStopsWithDetails(result.chargingStops),
                           restStops |-> RestStops(result),
                           totalDistance |-> result.totalDistance,
                           estimatedTripTimeHours |-> result.estimatedTime]]
    /\ pc' = "responded"
    /\ UNCHANGED <<crawlerVars, inputVars, callerVars, chargingStations,
                   nodeToChargingStation, maxDetourDistance, searchVars,
                   shortestPathResult, checkVars, result>>

----------------------------------------------------------------------------
(* The /debug-route handler: findShortestPath, findPathWithChargingStations and *)
(* findNearbyChargingStations called one after the other on a debug engine *)

\* routes.js lines 864-869: the search failed
DebugRouteNotFound ==
    /\ plan = "debugRoute"
    /\ pc = "searched"
    /\ ~shortestPathResult.success
    /\ response' = [status |-> 404, success |-> FALSE, error |-> shortestPathResult.error]
    /\ pc' = "responded"
    /\ UNCHANGED <<crawlerVars, inputVars, callerVars, chargingStations,
                   nodeToChargingStation, maxDetourDistance, searchVars, shortestPathResult,
                   checkVars, result>>

\* astar.js lines 594-603, 614-625, 627-632: what findPathWithChargingStations returns
PathWithChargingResult ==
    IF feasibilityResult.feasible
    THEN [success |-> TRUE, chargingStops |-> feasibilityResult.chargingStops,
          totalDistance |-> Phys(SumDistance(shortestPathResult.edges, 1)),
          error |-> "null", log |-> log, warning |-> Warning(attempt = "wide")]
    ELSE [success |-> FALSE, chargingStops |-> <<>>, totalDistance |-> 0,
          error |-> feasibilityResult.error, log |-> log, warning |-> NoWarning]

\* routes.js lines 872-934: the response, with the stations near the path
DebugRouteRespond ==
    /\ plan = "debugRoute"
    /\ pc = "checked"
    /\ feasibilityResult.feasible \/ attempt = "wide"
    /\ LET near == findNearbyChargingStations(shortestPathResult.path, maxDetourDistance,
                                              nodeToChargingStation)
       IN /\ response' = [status |-> 200, success |-> TRUE, debug |-> TRUE,
                          shortestPath |-> shortestPathResult.path,
                          pathWithCharging |-> PathWithChargingResult,
                          nearbyStations |-> near.map,
                          config |-> [maxDetourDistance |-> maxDetourDistance]]
          /\ nodeToChargingStation' = near.ntc
          /\ chargingStations' = SuppliedObjects(chargingStations, near.ntc)
    /\ pc' = "responded"
    /\ UNCHANGED <<crawlerVars, inputVars, callerVars, maxDetourDistance, searchVars,
                   shortestPathResult, checkVars, result>>

----------------------------------------------------------------------------
(* Inputs: five families of planning calls *)

Edge(a, b, d, attrs) ==
    [from |-> a, to |-> b, distance |-> d, condition |-> attrs[1], type |-> attrs[2]]

Plain == <<"good", "national">>
EdgeAttrs == {Plain, <<"good", "highway">>, <<"poor", "national">>}

\* Road-network family: three nodes, A and B at the same place 40 km from C, any
\* list of at most MaxEdges roads between them (parallel roads and a loop at B
\* included) or between one of them and "Z", which is no node; no road is shorter
\* than the straight line between its ends.
RoadNodes == <<[id |-> "A", pos |-> 0], [id |-> "B", pos |-> 0], [id |-> "C", pos |-> 40]>>

RoadEdges ==
    {Edge("A", "B", 1, at) : at \in EdgeAttrs}
      \cup {Edge("A", "C", 40, at) : at \in EdgeAttrs}
      \cup {Edge("B", "C", 40, at) : at \in EdgeAttrs}
      \cup {Edge("B", "B", 1, Plain)}
      \cup {Edge("A", "Z", 1, Plain), Edge("Z", "C", 40, Plain)}

\* "Z" is in no node list
RoadEndpoints == {<<"A", "A">>, <<"A", "B">>, <<"A", "C">>, <<"C", "A">>,
                  <<"A", "Z">>, <<"Z", "C">>}

Vehicles == {[batteryCapacity |-> 150, efficiency |-> 2, connectorType |-> "CCS2"]}

\* Station family: the chain A - B - C with a fourth node D near B, and any list of
\* at most MaxStations stations at A, at B or 10 km past B.
ChainNodes(p) == <<[id |-> "A", pos |-> 0], [id |-> "B", pos |-> 40],
                   [id |-> "C", pos |-> 80], [id |-> "D", pos |-> p]>>

OffPathPositions == {43, 48, 52}

ChainEdges(d1, d2) == <<Edge("A", "B", d1, Plain), Edge("B", "C", d2, Plain)>>

StationKinds == {[connectorTypes |-> {"CCS2", "Type2"}, chargingSpeed |-> 500],
                 [connectorTypes |-> {"CHAdeMO"}, chargingSpeed |-> 220]}

StationPositions == {0, 40, 50}

StationListsAt(positions) ==
    {[k \in DOMAIN kinds |->
         [id |-> k, pos |-> kinds[k][1],
          connectorTypes |-> kinds[k][2].connectorTypes,
          chargingSpeed |-> kinds[k][2].chargingSpeed]] :
       kinds \in SeqsUpTo(positions \X StationKinds, MaxStations)}

StationLists == StationListsAt(StationPositions)

\* Detour family: the chain A - B - C with two more nodes near B, D at 3 km and E
\* at 8 km, and any list of at most MaxStations stations at B, at D or next to E.
DetourNodes == <<[id |-> "A", pos |-> 0], [id |-> "B", pos |-> 30],
                 [id |-> "C", pos |-> 40], [id |-> "D", pos |-> 27],
                 [id |-> "E", pos |-> 22]>>

DetourStationPositions == {30, 27, 21}

\* Scenario family: two nodes joined by one 100 km road, and at most one station,
\* at the origin.
ScenarioNodes == <<[id |-> "A", pos |-> 0], [id |-> "B", pos |-> 100]>>

ScenarioStationLists ==
    {<<>>} \cup {<<[id |-> 1, pos |-> 0, connectorTypes |-> kind.connectorTypes,
                   chargingSpeed |-> kind.chargingSpeed]>> : kind \in StationKinds}

DefaultDetourDistance == 5

\* lines 18-35; when buildAdjacencyList throws, the constructor is left at line 25
\* with nothing after this.vehicle assigned, and there is no engine to call
\* routes.js lines 853-859 set debug and, if the request names one, maxDetourDistance
\* on the engine just constructed
InitEngine(debugRoute, detourDistances) ==
    /\ IF buildAdjacencyListThrows(nodes, edges)
       THEN /\ adjacencyList = <<>>
            /\ nodeToChargingStation = EmptyMap
            /\ maxDetourDistance = 0
            /\ debug = FALSE
            /\ pc = "constructorThrew"
       ELSE /\ adjacencyList = buildAdjacencyList(nodes, edges)
            /\ nodeToChargingStation = mapChargingStationsToNodes(nodes, chargingStations)
            /\ maxDetourDistance \in detourDistances
            /\ debug = debugRoute
            /\ pc = "findPath"
    /\ openSet = <<>>
    /\ closedSet = {}
    /\ gScore = <<>>
    /\ fScore = <<>>
    /\ cameFrom = <<>>
    /\ edgeBetween = <<>>
    /\ expanded = <<>>
    /\ shortestPathResult = Pending
    /\ attempt = "none"
    /\ radiusUsed = 0
    /\ tightStations = EmptyMap
    /\ checkStations = EmptyMap
    /\ segIdx = 0
    /\ battery = 0
    /\ chargingStops = <<>>
    /\ feasibilityResult = Pending
    /\ lastSegment = NoSegment
    /\ log = <<>>
    /\ result = Pending
    /\ firstResult = Pending

NoFile == [exists |-> FALSE]

\* the server before any request: no response yet, and the crawler module as it
\* is after loading without a data file (spkluFetcher.js lines 26-31, 59-77)
InitServer ==
    /\ response = NoResponse
    /\ googleMapsApiKey = TRUE
    /\ allSPKLU = <<>>
    /\ isIndexingComplete = FALSE
    /\ indexingProgress = 0
    /\ dataFile = NoFile
    /\ indexingRuns = <<>>
    /\ progressResponse = NoResponse

\* what callers do with the inputs of a family
Plans == {"sameEngine", "routeTwice"}

InitRoads ==
    /\ nodes = RoadNodes
    /\ edges \in SeqsUpTo(RoadEdges, MaxEdges)
    /\ chargingStations = <<>>
    /\ vehicle \in Vehicles
    /\ \E ends \in RoadEndpoints : start = ends[1] /\ goal = ends[2]
    /\ plan = "route"

InitStations ==
    /\ \E p \in OffPathPositions : nodes = ChainNodes(p)
    /\ \E d1 \in {30, 65, 100}, d2 \in {40, 65} : edges = ChainEdges(d1, d2)
    /\ chargingStations \in StationLists
    /\ vehicle \in Vehicles
    /\ start = "A"
    /\ goal \in {"B", "C"}
    /\ plan \in Plans

InitScenario ==
    /\ nodes = ScenarioNodes
    /\ edges = <<Edge("A", "B", 100, Plain)>>
    /\ chargingStations \in ScenarioStationLists
    /\ vehicle \in Vehicles
    /\ start = "A"
    /\ goal = "B"
    /\ plan \in Plans

InitDetour ==
    /\ nodes = DetourNodes
    /\ \E d1 \in {30, 55, 65}, d2 \in {10, 65, 100} : edges = ChainEdges(d1, d2)
    /\ chargingStations \in StationListsAt(DetourStationPositions)
    /\ vehicle \in Vehicles
    /\ start = "A"
    /\ goal = "C"
    /\ plan \in Plans

\* Debug-route family: the detour family behind the /debug-route endpoint, which
\* sets debug and may set maxDetourDistance
DebugDetourDistances == {DefaultDetourDistance, 3, 10, 15}

InitDebugRoute ==
    /\ nodes = DetourNodes
    /\ \E d1 \in {30, 65} : edges = ChainEdges(d1, 65)
    /\ chargingStations \in StationListsAt(DetourStationPositions)
    /\ vehicle \in Vehicles
    /\ start \in {"A", "Q"}
    /\ goal = "C"
    /\ plan = "debugRoute"

Init ==
    /\ \/ /\ InitRoads \/ InitStations \/ InitScenario \/ InitDetour
          /\ InitEngine(FALSE, {DefaultDetourDistance})
       \/ InitDebugRoute /\ InitEngine(TRUE, DebugDetourDistances)
    /\ InitServer

----------------------------------------------------------------------------
(* SPKLU crawler: spkluFetcher.js and its two routes *)

\* what one grid search can return
GridResults == {<<>>, <<"P1">>, <<"P2">>, <<"P1", "P2">>}

\* saveSPKLUToFile, lines 36-55
SavedFile(stations) == [exists |-> TRUE, stations |-> stations]

\* what the data file can hold when the module is loaded
SavedFiles == {NoFile, SavedFile(<<>>), SavedFile(<<"P1">>), SavedFile(<<"P1", "P2">>)}

Min(a, b) == IF a < b THEN a ELSE b

\* spkluFetcher.js line 217
ProgressAfter(i) == Min(100, Round((i + 1) * 100, TotalGrids))

\* spkluFetcher.js line 222: i % Math.floor(totalGrids / 10) === 0, which is false
\* for a divisor of 0 (NaN)
SavesAt(i) ==
    LET every == TotalGrids \div 10
    IN every /= 0 /\ i % every = 0

RunInProgress ==
    \E r \in 1..Len(indexingRuns) : indexingRuns[r].pc \in {"search", "delay"}

\* spkluFetcher.js lines 26-31 and 59-77: the module state after import
InitCrawler ==
    /\ googleMapsApiKey \in BOOLEAN
    /\ dataFile \in SavedFiles
    /\ allSPKLU = IF dataFile.exists THEN dataFile.stations ELSE <<>>
    /\ isIndexingComplete = dataFile.exists
    /\ indexingProgress = IF dataFile.exists THEN 100 ELSE 0
    /\ indexingRuns = <<>>
    /\ progressResponse = NoResponse

\* routes.js lines 340-347: POST /start-spklu-indexing without an API key
StartIndexingRefused ==
    /\ ~googleMapsApiKey
    /\ Len(indexingRuns) < MaxRuns
    /\ indexingRuns' = Append(indexingRuns, [pc |-> "refused", i |-> 0])
    /\ UNCHANGED <<plannerVars, googleMapsApiKey, allSPKLU, isIndexingComplete,
                   indexingProgress, dataFile, progressResponse>>

\* routes.js lines 349-355 and spkluFetcher.js lines 192-210: the request starts a
\* run, which resets the module state and waits for the search of the first grid
StartIndexing ==
    /\ googleMapsApiKey
    /\ Len(indexingRuns) < MaxRuns
    /\ allSPKLU' = <<>>
    /\ isIndexingComplete' = FALSE
    /\ indexingProgress' = 0
    /\ indexingRuns' = Append(indexingRuns, [pc |-> "search", i |-> 0])
    /\ UNCHANGED <<plannerVars, googleMapsApiKey, dataFile, progressResponse>>

\* spkluFetcher.js lines 209-227: the search of grid i of a run returns
GridSearched ==
    \E r \in 1..Len(indexingRuns), results \in GridResults :
        /\ indexingRuns[r].pc = "search"
        /\ LET i == indexingRuns[r].i
               uniqueResults == SelectSeq(results, LAMBDA id : id \notin Range(allSPKLU))
               found == allSPKLU \o uniqueResults
           IN /\ allSPKLU' = found
              /\ indexingProgress' = ProgressAfter(i)
              /\ dataFile' = IF SavesAt(i) THEN SavedFile(found) ELSE dataFile
        /\ indexingRuns' = [indexingRuns EXCEPT ![r].pc = "delay"]
        /\ UNCHANGED <<plannerVars, googleMapsApiKey, isIndexingComplete, progressResponse>>

\* spkluFetcher.js lines 207, 227 and 233-237: the delay of a run is over; the run
\* goes on with the next grid or, after the last one, sets the flag and saves
DelayElapsed ==
    \E r \in 1..Len(indexingRuns) :
        /\ indexingRuns[r].pc = "delay"
        /\ LET i == indexingRuns[r].i + 1
           IN IF i < TotalGrids
              THEN /\ indexingRuns' = [indexingRuns EXCEPT ![r] = [pc |-> "search", i |-> i]]
                   /\ UNCHANGED <<isIndexingComplete, dataFile>>
              ELSE /\ indexingRuns' = [indexingRuns EXCEPT ![r] = [pc |-> "finished", i |-> i]]
                   /\ isIndexingComplete' = TRUE
                   /\ dataFile' = SavedFile(allSPKLU)
        /\ UNCHANGED <<plannerVars, googleMapsApiKey, allSPKLU, indexingProgress,
                       progressResponse>>

\* routes.js lines 387-401: GET /spklu-indexing-progress
ProgressQuery ==
    /\ progressResponse' = [status |-> 200, success |-> TRUE,
                            isComplete |-> isIndexingComplete,
                            progress |-> indexingProgress]
    /\ UNCHANGED <<plannerVars, googleMapsApiKey, allSPKLU, isIndexingComplete,
                   indexingProgress, dataFile, indexingRuns>>

----------------------------------------------------------------------------
(* Callers: a second planning call with the same arguments *)

\* the caller calls findPath(start, goal) again on the engine it has; the locals of
\* the first call are gone, the fields of the engine are as the first call left them
CallAgainSameEngine ==
    /\ pc = "done"
    /\ plan = "sameEngine"
    /\ firstResult = Pending
    /\ firstResult' = result
    /\ openSet' = <<>>
    /\ closedSet' = {}
    /\ gScore' = <<>>
    /\ fScore' = <<>>
    /\ cameFrom' = <<>>
    /\ edgeBetween' = <<>>
    /\ expanded' = <<>>
    /\ shortestPathResult' = Pending
    /\ attempt' = "none"
    /\ radiusUsed' = 0
    /\ tightStations' = EmptyMap
    /\ checkStations' = EmptyMap
    /\ segIdx' = 0
    /\ battery' = 0
    /\ chargingStops' = <<>>
    /\ feasibilityResult' = Pending
    /\ lastSegment' = NoSegment
    /\ log' = <<>>
    /\ result' = Pending
    /\ pc' = "findPath"
    /\ UNCHANGED <<crawlerVars, response, inputVars, plan, chargingStations,
                   nodeToChargingStation, maxDetourDistance>>

\* routes.js lines 452-456: a second /route request builds a new engine from the
\* road network and the station list that the requests share, and calls findPath
RouteAgain ==
    /\ pc = "responded"
    /\ plan = "routeTwice"
    /\ firstResult = Pending
    /\ firstResult' = result
    /\ adjacencyList' = buildAdjacencyList(nodes, edges)
    /\ nodeToChargingStation' = mapChargingStationsToNodes(nodes, chargingStations)
    /\ maxDetourDistance' = DefaultDetourDistance
    /\ debug' = FALSE
    /\ openSet' = <<>>
    /\ closedSet' = {}
    /\ gScore' = <<>>
    /\ fScore' = <<>>
    /\ cameFrom' = <<>>
    /\ edgeBetween' = <<>>
    /\ expanded' = <<>>
    /\ shortestPathResult' = Pending
    /\ attempt' = "none"
    /\ radiusUsed' = 0
    /\ tightStations' = EmptyMap
    /\ checkStations' = EmptyMap
    /\ segIdx' = 0
    /\ battery' = 0
    /\ chargingStops' = <<>>
    /\ feasibilityResult' = Pending
    /\ lastSegment' = NoSegment
    /\ log' = <<>>
    /\ result' = Pending
    /\ pc' = "findPath"
    /\ response' = NoResponse
    /\ UNCHANGED <<crawlerVars, nodes, edges, vehicle, start, goal, plan, chargingStations>>

----------------------------------------------------------------------------

Next ==
    \/ FindShortestPathNodeNotFound
    \/ FindShortestPathInit
    \/ SearchReachGoal
    \/ SearchExpand
    \/ SearchExhausted
    \/ FindPathSearchFailed
    \/ BeginTightCheck
    \/ CheckSegment
    \/ CheckComplete
    \/ RetryWiderCheck
    \/ FindPathInfeasible
    \/ FindPathSuccess
    \/ RouteRespond
    \/ DebugRouteNotFound
    \/ DebugRouteRespond
    \/ CallAgainSameEngine
    \/ RouteAgain

Spec == Init /\ [][Next]_vars

\* The crawler on its own: the server with an idle planner, start-indexing requests
\* and progress queries in any interleaving with the steps of the runs
CrawlerInit ==
    /\ nodes = RoadNodes
    /\ edges = <<>>
    /\ chargingStations = <<>>
    /\ vehicle \in Vehicles
    /\ start = "A"
    /\ goal = "A"
    /\ plan = "route"
    /\ InitEngine(FALSE, {DefaultDetourDistance})
    /\ response = NoResponse
    /\ InitCrawler

CrawlerNext ==
    \/ StartIndexingRefused
    \/ StartIndexing
    \/ GridSearched
    \/ DelayElapsed
    \/ ProgressQuery

CrawlerSpec == CrawlerInit /\ [][CrawlerNext]_vars

----------------------------------------------------------------------------
(* Properties of the charging planner *)

Checking == pc \in {"check", "checked", "done"} /\ attempt /= "none"

Traversed == Checking /\ lastSegment.outcome = "traversed"

\* a loop iteration that got as far as comparing the need with the battery
Compared == Checking /\ lastSegment.outcome \notin {"none", "NoEdge"}

Supports(station) == vehicle.connectorType \in station.connectorTypes

AnyCompatibleAt(m, nodeId) ==
    MapHas(m, nodeId) /\ \E k \in 1..Len(m.val[nodeId]) : Supports(m.val[nodeId][k])

FirstCompatibleAt(m, nodeId) == MapHas(m, nodeId) /\ Supports(m.val[nodeId][1])

StopAt(stops, nodeId) == \E k \in 1..Len(stops) : stops[k].nodeId = nodeId

RequiredStops(stops) == SelectSeq(stops, LAMBDA stop : ~stop.isOptional)

Finished == pc = "done"

Succeeded == Finished /\ result.success

\* C1: the simulated battery level is never negative after a traversed segment,
\* nor in a result that reports the path feasible.
C1_BatteryNeverNegative ==
    /\ Traversed => lastSegment.batteryAfterSegment >= 0 /\ battery >= 0
    /\ (pc \in {"checked", "done"} /\ attempt /= "none" /\ feasibilityResult.feasible)
          => feasibilityResult.finalBatteryLevel >= 0

\* C2: when a segment needs more than the battery holds and some station listed
\* for the departure node supports the vehicle's connector, the planner charges
\* there and records a required stop; it does not fail at that segment.
C2_ChargesAtAnyCompatibleStation ==
    (Compared /\ lastSegment.energyNeeded > lastSegment.batteryBefore
       /\ AnyCompatibleAt(checkStations, lastSegment.from))
      => /\ lastSegment.outcome = "traversed"
         /\ lastSegment.forced
         /\ StopAt(chargingStops, lastSegment.from)

\* C3: every required charging stop of a successful result names a station whose
\* connectorTypes contains the vehicle's connectorType.
C3_RequiredStopsCompatible ==
    Succeeded =>
        \A k \in 1..Len(result.chargingStops) :
            ~result.chargingStops[k].isOptional =>
                /\ result.chargingStops[k].stationId \in 1..Len(chargingStations)
                /\ Supports(chargingStations[result.chargingStops[k].stationId])

\* a successful plan with two required stops: a forced one at the origin and a
\* defensive one at the next node
C3_Witness ==
    /\ Succeeded
    /\ Len(RequiredStops(result.chargingStops)) = 2
    /\ lastSegment.outcome = "traversed"

IsScenario == nodes = ScenarioNodes

IsScenarioA == IsScenario /\ chargingStations = <<>>

IsScenarioB ==
    /\ IsScenario
    /\ Len(chargingStations) = 1
    /\ Supports(chargingStations[1])
    /\ chargingStations[1].chargingSpeed = 500

C5_NoStationFailure ==
    /\ (Finished /\ attempt = "wide" /\ ~feasibilityResult.feasible
          /\ feasibilityResult.error.kind = "NoStation")
         => /\ lastSegment.energyNeeded > lastSegment.batteryBefore
            /\ ~MapHas(tightStations, lastSegment.from)
            /\ ~MapHas(checkStations, lastSegment.from)
            /\ ~result.success
            /\ result.error = [kind |-> "NoStation", at |-> lastSegment.from,
                               to |-> lastSegment.to]
            /\ "chargingStops" \notin DOMAIN result
            /\ "partialPath" \in DOMAIN result
            /\ result.partialPath = shortestPathResult.path
            /\ result.totalDistance = shortestPathResult.totalDistance
    /\ (IsScenarioA /\ Finished)
         => /\ ~result.success
            /\ result.error.kind = "NoStation"
            /\ "partialPath" \in DOMAIN result
            /\ result.partialPath = <<"A", "B">>
            /\ result.totalDistance = Phys(100)

\* the battery runs out at the second node of a three-node path, where neither
\* station map has a station although the call has stations
C5_Witness ==
    /\ Finished
    /\ attempt = "wide"
    /\ ~feasibilityResult.feasible
    /\ feasibilityResult.error.kind = "NoStation"
    /\ lastSegment.from = "B"
    /\ chargingStations /= <<>>

\* C6 as stated: when a segment's need is satisfiable but traversing it leaves the
\* battery below 20% of the capacity, and a compatible station exists at the
\* segment's departure node, the planner records a required stop at the departure
\* node before it traverses the segment.
C6_DefensiveStopAtDeparture ==
    (Traversed /\ lastSegment.energyNeeded <= lastSegment.batteryBefore
       /\ (lastSegment.batteryBefore - lastSegment.energyNeeded) * 100
             < 20 * vehicle.batteryCapacity
       /\ AnyCompatibleAt(checkStations, lastSegment.from))
      => StopAt(chargingStops, lastSegment.from)

\* C6 as amended: when, after a segment other than the last of the path has been
\* traversed, the battery is below 20% of the capacity and the first station
\* listed for the segment's arrival node is compatible, the planner charges to
\* full at the arrival node and records a required stop there.
C6_DefensiveStopAtArrival ==
    (Traversed /\ pc = "check"
       /\ lastSegment.batteryAfterSegment * 100 < 20 * vehicle.batteryCapacity
       /\ segIdx < Len(shortestPathResult.path)
       /\ FirstCompatibleAt(checkStations, lastSegment.to))
      => /\ lastSegment.defensive
         /\ battery = vehicle.batteryCapacity
         /\ Len(chargingStops) >= 1
         /\ chargingStops[Len(chargingStops)].nodeId = lastSegment.to
         /\ chargingStops[Len(chargingStops)].stationId
               = checkStations.val[lastSegment.to][1].id
         /\ chargingStops[Len(chargingStops)].energyAdded
               = vehicle.batteryCapacity - lastSegment.batteryAfterSegment

\* a segment was traversed without a forced charge, it left between 10% and 20%,
\* and the planner charged at the arrival node
C6_Witness ==
    /\ Traversed
    /\ ~lastSegment.forced
    /\ lastSegment.defensive
    /\ lastSegment.batteryAfterSegment * 100 >= 10 * vehicle.batteryCapacity
    /\ battery = vehicle.batteryCapacity

----------------------------------------------------------------------------
(* Properties of the shortest-path search *)

Searched == pc \in {"searched", "check", "checked", "done"}

Found == Searched /\ shortestPathResult.success

\* the physical length in km of a path, over the input edges
RECURSIVE PathKm(_, _)
PathKm(path, i) ==
    IF i >= Len(path) THEN 0
    ELSE FindEdge(edges, path[i], path[i + 1]).distance + PathKm(path, i + 1)

Joined(path) == \A i \in 1..(Len(path) - 1) : FindEdge(edges, path[i], path[i + 1]) /= NoEdge

\* C7: every reported total distance is the sum of the physical distances of the
\* edges between consecutive path nodes: for findShortestPath, for a successful
\* findPath and for the partial data of a failed findPath.
C7_DistanceIsSumOfEdges ==
    /\ Found => /\ Joined(shortestPathResult.path)
                /\ shortestPathResult.totalDistance = Phys(PathKm(shortestPathResult.path, 1))
    /\ Succeeded => result.totalDistance = Phys(PathKm(result.path, 1))
    /\ (Finished /\ ~result.success /\ "partialPath" \in DOMAIN result)
          => result.totalDistance = Phys(PathKm(result.partialPath, 1))

\* the least weighted cost from the start to every node: Bellman-Ford rounds over
\* the adjacency lists
RelaxRound(dist) ==
    [id \in NodeIds |->
        LET via == {dist[adjacencyList[id][k].node] + EdgeWeight(adjacencyList[id][k]) :
                       k \in {j \in 1..Len(adjacencyList[id]) :
                                 dist[adjacencyList[id][j].node] < Infinity}}
            all == via \cup {dist[id]}
        IN CHOOSE m \in all : \A x \in all : m <= x]

RECURSIVE LeastCosts(_, _)
LeastCosts(dist, rounds) ==
    IF rounds = 0 THEN dist ELSE LeastCosts(RelaxRound(dist), rounds - 1)

LeastCost(from, to) ==
    LeastCosts([id \in NodeIds |-> IF id = from THEN 0 ELSE Infinity], Len(nodes))[to]

RECURSIVE SumWeight(_, _)
SumWeight(es, k) == IF k > Len(es) THEN 0 ELSE EdgeWeight(es[k]) + SumWeight(es, k + 1)

\* C8: the path returned by findShortestPath has the least weighted cost of all
\* paths from the origin to the destination.
C8_LeastWeightedCost ==
    Found => /\ SumWeight(shortestPathResult.edges, 1) = LeastCost(start, goal)
             /\ shortestPathResult.totalDistance = LeastCost(start, goal)

IsInputEdge(e) ==
    \E k \in 1..Len(edges) :
        /\ {edges[k].from, edges[k].to} = {e.from, e.to}
        /\ edges[k].distance = e.distance
        /\ edges[k].condition = e.condition
        /\ edges[k].type = e.type

WellFormedPath(path, from, to) ==
    /\ Len(path) >= 1
    /\ path[1] = from
    /\ path[Len(path)] = to
    /\ \A i, j \in 1..Len(path) : path[i] = path[j] => i = j
    /\ Joined(path)

\* C9: a returned path starts at the origin, ends at the destination, repeats no
\* node, joins consecutive nodes by an edge of the graph, and comes with exactly
\* one edge per consecutive pair, in path order.
C9_PathWellFormed ==
    /\ Found => /\ WellFormedPath(shortestPathResult.path, start, goal)
                /\ Len(shortestPathResult.edges) = Len(shortestPathResult.path) - 1
                /\ \A i \in 1..Len(shortestPathResult.edges) :
                      /\ shortestPathResult.edges[i].from = shortestPathResult.path[i]
                      /\ shortestPathResult.edges[i].to = shortestPathResult.path[i + 1]
                      /\ IsInputEdge(shortestPathResult.edges[i])
    /\ Succeeded => WellFormedPath(result.path, start, goal)
    /\ (Finished /\ ~result.success /\ "partialPath" \in DOMAIN result)
          => WellFormedPath(result.partialPath, start, goal)

\* a three-node path through a graph with parallel roads
C9_Witness ==
    /\ Found
    /\ Len(shortestPathResult.path) = 3
    /\ \E i, j \in 1..Len(edges) :
          i /= j /\ {edges[i].from, edges[i].to} = {edges[j].from, edges[j].to}

\* the nodes reachable from a node through the undirected edges
RECURSIVE Grow(_, _)
Grow(seen, rounds) ==
    IF rounds = 0 THEN seen
    ELSE Grow(seen \cup {id \in NodeIds :
                            \E k \in 1..Len(edges) :
                                \/ edges[k].from \in seen /\ edges[k].to = id
                                \/ edges[k].to \in seen /\ edges[k].from = id},
              rounds - 1)

Reachable(from) == Grow({from}, Len(nodes))

SearchStarted ==
    pc \notin {"constructorThrew", "findPath"} /\ HasNode(start) /\ HasNode(goal)

\* the state part of C10: no node is expanded twice, a non-empty frontier always
\* yields an open node to take as current, and for endpoints of the graph the search fails with "No path found"
\* exactly when the destination is unreachable and succeeds otherwise
C10_SearchOutcome ==
    /\ SearchStarted => /\ \A id \in NodeIds : expanded[id] <= 1
                        /\ closedSet = {id \in NodeIds : expanded[id] = 1}
    /\ (pc = "search" /\ Len(openSet) > 0) => SelectCurrent \in NodeIds \ closedSet
    /\ (SearchStarted /\ Searched) =>
          /\ shortestPathResult.success <=> goal \in Reachable(start)
          /\ ~shortestPathResult.success => shortestPathResult.error.kind = "NoPathFound"

\* the step part of C10: an iteration of the loop either returns or closes a node
\* of the graph that was not closed before
C10_Progress ==
    pc = "search" =>
        \/ pc' = "searched"
        \/ /\ pc' = "search"
           /\ closedSet' \subseteq NodeIds
           /\ closedSet \subseteq closedSet'
           /\ Cardinality(closedSet') = Cardinality(closedSet) + 1

\* C10: for endpoints of the graph findShortestPath terminates, since every
\* iteration returns or expands a node never expanded before; it fails with
\* "No path found" exactly when the destination is unreachable from the origin
\* through the undirected edges, and succeeds otherwise.
C10_SearchTerminates == []C10_SearchOutcome /\ [][C10_Progress]_vars

\* the search gave up after it had expanded two nodes
C10_Witness ==
    /\ SearchStarted
    /\ Searched
    /\ ~shortestPathResult.success
    /\ Cardinality(closedSet) = 2

----------------------------------------------------------------------------
(* Properties of findPath and of the route assembler *)

\* the constructor returned an engine
Constructed == pc /= "constructorThrew"

NodeNotFound == [success |-> FALSE, error |-> [kind |-> "NodeNotFound"]]

\* C11: if the origin or the destination is not a node of the graph, findPath
\* returns exactly the failure "node not found", without a path, a partial path
\* or a distance, and neither a search iteration nor a feasibility check runs.
C11_NodeNotFound ==
    (Constructed /\ (~HasNode(start) \/ ~HasNode(goal))) =>
        /\ pc \in {"findPath", "searched", "done", "responded"}
        /\ openSet = <<>> /\ closedSet = {} /\ expanded = <<>>
        /\ attempt = "none" /\ segIdx = 0 /\ lastSegment = NoSegment
        /\ feasibilityResult = Pending
        /\ Searched => shortestPathResult = NodeNotFound
        /\ Finished => /\ result = NodeNotFound
                       /\ DOMAIN result = {"success", "error"}

\* findPath returned for a destination that is not in the node list
C11_Witness == Finished /\ HasNode(start) /\ ~HasNode(goal)

\* the state part of C12: which station map each attempt checks, and what the
\* result says about the attempts
C12_Attempts ==
    /\ attempt = "none" =>
          /\ pc \in {"constructorThrew", "findPath", "search", "searched", "done", "responded"}
          /\ Finished => ~result.success
    /\ attempt = "tight" =>
          /\ radiusUsed = maxDetourDistance
          /\ checkStations = tightStations
          /\ Finished => /\ feasibilityResult.feasible
                         /\ result.success
                         /\ result.warning = NoWarning
    /\ attempt = "wide" =>
          /\ radiusUsed = WidenedRadius
          /\ checkStations =
                findNearbyChargingStations(shortestPathResult.path, WidenedRadius,
                                           nodeToChargingStation).map
          /\ Finished => /\ result.success <=> feasibilityResult.feasible
                         /\ result.success => result.warning = WiderWarning
                         /\ ~result.success => result.error = feasibilityResult.error

\* the step part of C12: the first check is the tight one, the widened check
\* starts only from a failed tight check, and a finished call does nothing more
C12_Order ==
    /\ pc \in {"done", "responded"} =>
          \/ UNCHANGED <<checkVars, result>>
          \/ pc' = "findPath" /\ attempt' = "none" /\ result' = Pending
    /\ (pc \notin {"done", "responded"} /\ attempt' /= attempt) =>
          \/ /\ attempt = "none" /\ attempt' = "tight"
             /\ tightStations' =
                   findNearbyChargingStations(shortestPathResult.path, maxDetourDistance,
                                              nodeToChargingStation).map
          \/ /\ attempt = "tight" /\ attempt' = "wide"
             /\ pc = "checked" /\ ~feasibilityResult.feasible
    /\ (pc = "checked" /\ feasibilityResult.feasible) =>
          IF plan = "debugRoute"
          THEN pc' = "responded" /\ response'.pathWithCharging.success
          ELSE pc' = "done" /\ result'.success
    /\ (pc = "checked" /\ attempt = "wide") => pc' \in {"done", "responded"}

Radii == {3, 5, 8, 10}

\* checkPathFeasibility on the station map that findNearbyChargingStations builds
\* for the found path at radius r
FeasibleAt(r) ==
    checkPathFeasibility(shortestPathResult.path, shortestPathResult.edges,
        findNearbyChargingStations(shortestPathResult.path, r, nodeToChargingStation).map)
      .feasible

\* C13: monotonicity in the detour radius: a path that is feasible on the station
\* map of radius R is feasible on the station map of every larger radius.
C13_RadiusMonotone ==
    (Found /\ pc = "searched") =>
        \A r1, r2 \in Radii : (r1 < r2 /\ FeasibleAt(r1)) => FeasibleAt(r2)

\* the energy that the whole found path takes
PathEnergy == calculateEnergyConsumption(PathKm(shortestPathResult.path, 1))

OnlyOptionalStops ==
    \A k \in 1..Len(result.chargingStops) :
        /\ result.chargingStops[k].isOptional
        /\ result.chargingStops[k].nodeId \in Range(result.path)

\* C14 as stated: if the energy for the whole optimal path does not exceed the
\* battery capacity, findPath succeeds without a required stop, and every stop of
\* the result is an optional stop at a path node.
C14_NoStopWithinCapacity ==
    (Finished /\ Found /\ PathEnergy <= vehicle.batteryCapacity) =>
        result.success /\ OnlyOptionalStops

\* C14 amended: if the energy for the whole optimal path does not exceed 80% of the
\* battery capacity, findPath succeeds without a required stop, and every stop of
\* the result is an optional stop at a path node.
C14_NoStopWithinSafetyMargin ==
    (Finished /\ Found /\ PathEnergy * 100 <= 80 * vehicle.batteryCapacity) =>
        result.success /\ OnlyOptionalStops

\* Scenario D: a chain of three nodes driven on less than 80% of the battery, with
\* a compatible station at the middle node shown as an optional stop
C14_Witness ==
    /\ Succeeded
    /\ Len(result.path) = 3
    /\ PathEnergy * 100 <= 80 * vehicle.batteryCapacity
    /\ FirstCompatibleAt(tightStations, result.path[2])
    /\ \E k \in 1..Len(result.chargingStops) :
          result.chargingStops[k].isOptional /\ result.chargingStops[k].nodeId = result.path[2]

RECURSIVE Gcd(_, _)
Gcd(a, b) == IF b = 0 THEN a ELSE Gcd(b, a % b)

\* a fraction in lowest terms
Reduced(f) == [num |-> f.num \div Gcd(f.num, f.den), den |-> f.den \div Gcd(f.num, f.den)]

RECURSIVE SumChargingTime(_)
SumChargingTime(stops) ==
    IF stops = <<>> THEN [num |-> 0, den |-> 1]
    ELSE FracAdd(Head(stops).chargingTime, SumChargingTime(Tail(stops)))

\* the reported distance in km
ResultKm == result.totalDistance \div Phys(1)

\* C15: the estimated time of a successful result is totalDistance / 60 hours, plus
\* the charging times of the required stops, plus a quarter of an hour for every
\* completed two hours of driving; optional stops add nothing.
C15_EstimatedTime ==
    Succeeded =>
        Reduced(result.estimatedTime) =
            Reduced(FracAdd(FracAdd([num |-> ResultKm, den |-> 60],
                                    SumChargingTime(RequiredStops(result.chargingStops))),
                            [num |-> ResultKm \div 120, den |-> 4]))

\* a drive of more than two hours with a required stop that takes time
C15_Witness ==
    /\ Succeeded
    /\ ResultKm >= 120
    /\ \E k \in 1..Len(result.chargingStops) :
          ~result.chargingStops[k].isOptional /\ result.chargingStops[k].chargingTime.num > 0

\* the stations that findNearbyChargingStations finds near the final path
NearFinalPath ==
    findNearbyChargingStations(result.path, maxDetourDistance, nodeToChargingStation).map

StationsNear ==
    UNION {{NearFinalPath.val[n][k].id : k \in 1..Len(NearFinalPath.val[n])} :
              n \in DOMAIN NearFinalPath.val}

UsedStations ==
    {result.chargingStops[k].stationId :
        k \in {j \in 1..Len(result.chargingStops) : ~result.chargingStops[j].isOptional}}

IsOptionalStopOf(stop, id) ==
    /\ stop.isOptional
    /\ stop.stationId = id
    /\ stop.chargingTime.num = 0
    /\ stop.energyAdded = 0

\* C16: in a successful result every station found near the final path and not
\* used for a required stop has an optional stop (no charging time, no energy);
\* the optional stops come after the required stops, in the order of their nodes
\* along the path.
C16_OptionalStopPerUnusedStation ==
    Succeeded =>
        /\ \A id \in StationsNear \ UsedStations :
              \E k \in 1..Len(result.chargingStops) :
                  IsOptionalStopOf(result.chargingStops[k], id)
        /\ \A i, j \in 1..Len(result.chargingStops) :
              (i < j /\ result.chargingStops[i].isOptional) =>
                  /\ result.chargingStops[j].isOptional
                  /\ IndexOf(result.path, result.chargingStops[i].nodeId)
                        <= IndexOf(result.path, result.chargingStops[j].nodeId)

----------------------------------------------------------------------------
(* Properties of the nearby-station resolver *)

StationIdsOf(stations) == {stations[k].id : k \in 1..Len(stations)}

\* the stations whose nearest graph node is the node
StationIdsAt(nodeId) ==
    IF MapHas(nodeToChargingStation, nodeId)
    THEN StationIdsOf(nodeToChargingStation.val[nodeId])
    ELSE {}

DistanceToPathNode(nodeId, pathNodeId) == calculateDistance(NodePos(nodeId), NodePos(pathNodeId))

\* the distance of a node to its closest path node
DistanceToPath(nodeId, path) ==
    CHOOSE d \in {DistanceToPathNode(nodeId, path[i]) : i \in 1..Len(path)} :
        \A i \in 1..Len(path) : d <= DistanceToPathNode(nodeId, path[i])

\* the off-path nodes with stations that lie within r of the path
OffPathWithin(path, r) ==
    {nodeId \in DOMAIN nodeToChargingStation.val \ Range(path) :
        DistanceToPath(nodeId, path) <= r}

\* what C17 says of the station map m built for the path at radius r
NearbyAsSpecified(m, path, r) ==
    /\ DOMAIN m.val \subseteq Range(path)
    /\ Range(m.keys) = DOMAIN m.val
    /\ \A n \in Range(path) :
          LET attached == IF MapHas(m, n) THEN m.val[n] ELSE <<>>
          IN /\ Len(attached) = Cardinality(StationIdsOf(attached))
             /\ StationIdsAt(n) \subseteq StationIdsOf(attached)
             /\ \A id \in StationIdsOf(attached) \ StationIdsAt(n) :
                   \E o \in OffPathWithin(path, r) :
                       /\ id \in StationIdsAt(o)
                       /\ DistanceToPathNode(o, n) = DistanceToPath(o, path)
    /\ \A o \in OffPathWithin(path, r) :
          \A id \in StationIdsAt(o) :
              Cardinality({n \in DOMAIN m.val : id \in StationIdsOf(m.val[n])}) = 1

\* the distance of a station to the closest path node
StationDistanceToPath(station, path) ==
    CHOOSE d \in {calculateDistance(station.pos, NodePos(path[i])) : i \in 1..Len(path)} :
        \A i \in 1..Len(path) : d <= calculateDistance(station.pos, NodePos(path[i]))

\* the last clause of C17 read of the stations themselves
StationsWithinRadius(m, path, r) ==
    \A k \in 1..Len(chargingStations) :
        LET places == {n \in DOMAIN m.val : chargingStations[k].id \in StationIdsOf(m.val[n])}
        IN IF StationDistanceToPath(chargingStations[k], path) <= r
           THEN Cardinality(places) = 1
           ELSE places = {}

----------------------------------------------------------------------------
(* Properties of the engine as a whole *)

ErrorKinds == {"NodeNotFound", "NoPathFound", "NoStation", "NoCompatibleConnector", "NoEdge"}

\* a structured result of findPath
StructuredResult ==
    /\ "success" \in DOMAIN result
    /\ result.success \in BOOLEAN
    /\ result.success => {"path", "chargingStops", "totalDistance", "estimatedTime"}
                            \subseteq DOMAIN result
    /\ ~result.success => /\ "error" \in DOMAIN result
                          /\ result.error.kind \in ErrorKinds

\* what the next statements of findPath dereference is defined: the adjacency list
\* of the node taken as current, the first station of every attached list, the
\* fields of the results that the caller reads
NothingUndefined ==
    /\ pc \in {"findPath", "search", "searched", "check", "checked", "done", "responded"}
    /\ DOMAIN adjacencyList = NodeIds
    /\ (pc = "search" /\ Len(openSet) > 0) => SelectCurrent \in DOMAIN adjacencyList
    /\ pc = "searched" =>
          /\ "success" \in DOMAIN shortestPathResult
          /\ shortestPathResult.success => Len(shortestPathResult.path) >= 1
    /\ pc = "check" =>
          /\ \A n \in DOMAIN checkStations.val : Len(checkStations.val[n]) >= 1
          /\ \A i \in 1..Len(shortestPathResult.path) : HasNode(shortestPathResult.path[i])
    /\ pc = "checked" => "feasible" \in DOMAIN feasibilityResult

\* C18: for any origin and destination, in the graph or not, and any station set,
\* findPath on a constructed engine throws nothing: no step dereferences an
\* undefined value, and the call returns a structured result with a boolean
\* success flag and, on failure, an error.
C18_NeverThrows ==
    Constructed => /\ NothingUndefined
                   /\ Finished => StructuredResult

\* findPath returned for an origin that is not in the node list
C18_Witness == Finished /\ ~HasNode(start) /\ ~result.success /\ result.error.kind = "NodeNotFound"

----------------------------------------------------------------------------
(* Properties of the graph index *)

HasDanglingEdge == \E k \in 1..Len(edges) : {edges[k].from, edges[k].to} \ NodeIds /= {}

\* C19: an edge list with an edge whose from or to id is not a node id raises no
\* error in the constructor: the engine is constructed and findPath between
\* existing nodes returns a result as it does without the edge.
C19_DanglingEdgeTolerated ==
    HasDanglingEdge =>
        /\ pc /= "constructorThrew"
        /\ DOMAIN adjacencyList = NodeIds
        /\ Finished => StructuredResult

\* the entry that an edge puts into the list of one end, naming the other end
EntryOf(e, other) ==
    [node |-> other, distance |-> e.distance, condition |-> e.condition, type |-> e.type]

\* how many ends of input edges lie at the node (a self-loop has both ends there)
EndsAt(id) ==
    Cardinality({k \in 1..Len(edges) : edges[k].from = id})
      + Cardinality({k \in 1..Len(edges) : edges[k].to = id})

\* C20: adjacency symmetry: every input edge (a, b, d), parallel edges and
\* self-loops included, has an entry (b, d) in the list of a and an entry (a, d)
\* in the list of b, with the edge's condition and type; and the lists hold
\* nothing else: every entry comes from an input edge, one entry per edge end.
C20_AdjacencySymmetry ==
    Constructed =>
        /\ DOMAIN adjacencyList = NodeIds
        /\ \A k \in 1..Len(edges) :
              /\ EntryOf(edges[k], edges[k].to) \in Range(adjacencyList[edges[k].from])
              /\ EntryOf(edges[k], edges[k].from) \in Range(adjacencyList[edges[k].to])
        /\ \A id \in NodeIds :
              /\ Len(adjacencyList[id]) = EndsAt(id)
              /\ \A j \in 1..Len(adjacencyList[id]) :
                    \E k \in 1..Len(edges) :
                        /\ {edges[k].from, edges[k].to} = {id, adjacencyList[id][j].node}
                        /\ adjacencyList[id][j] = EntryOf(edges[k], adjacencyList[id][j].node)

\* an engine built from a list with a loop and two parallel roads
C20_Witness ==
    /\ Constructed
    /\ \E k \in 1..Len(edges) : edges[k].from = edges[k].to
    /\ \E i, j \in 1..Len(edges) :
          /\ i /= j
          /\ edges[i].from /= edges[i].to
          /\ {edges[i].from, edges[i].to} = {edges[j].from, edges[j].to}
    /\ \E id \in NodeIds : Len(adjacencyList[id]) = 4

----------------------------------------------------------------------------
(* Properties of repeated and of concurrent planning calls *)

CalledAgain == firstResult /= Pending

\* C21: determinism: a second planning call with the same graph, stations,
\* vehicle, origin and destination, on a new engine or on the same engine, returns
\* the result of the first call: the same path, charging stops in the same order,
\* distance, time, warning and error.
C21_SameResultTwice == (Finished /\ CalledAgain) => result = firstResult

\* the second call on an engine whose first call wrote distances into its station
\* mapping, succeeding on the widened check both times
C21_Witness ==
    /\ Finished
    /\ CalledAgain
    /\ plan = "sameEngine"
    /\ result.success
    /\ result.warning = WiderWarning
    /\ \E n \in DOMAIN nodeToChargingStation.val :
          nodeToChargingStation.val[n][1].distanceToPath /= {}

\* the step part of C22: no step of a planning call writes to the supplied nodes,
\* edges, station objects or vehicle
C22_InputsKept ==
    /\ nodes' = nodes
    /\ edges' = edges
    /\ chargingStations' = chargingStations
    /\ vehicle' = vehicle

\* C22: a planning call (construction of an engine, then findPath) never modifies
\* the supplied nodes, edges, station objects or vehicle, so that a planning call
\* that shares them with another one returns what it returns when run alone: the
\* second of two /route requests returns the result of the first.
C22_InputsUntouched ==
    /\ [][C22_InputsKept]_vars
    /\ []((Finished /\ CalledAgain /\ plan = "routeTwice") => result = firstResult)

\* the second /route request succeeded with stops after the first one had written
\* distances into the mapping of its own engine
C22_Witness ==
    /\ Finished
    /\ CalledAgain
    /\ plan = "routeTwice"
    /\ result.success
    /\ \E k \in 1..Len(result.chargingStops) : result.chargingStops[k].distanceToPath > 0


\* The outcome of a check as a function of path, edges, stations and vehicle alone
DebugFreeOutcome ==
    checkPathFeasibility(shortestPathResult.path, shortestPathResult.edges, checkStations)

RECURSIVE SumEnergyAdded(_, _)
SumEnergyAdded(stops, k) ==
    IF k > Len(stops) THEN 0 ELSE stops[k].energyAdded + SumEnergyAdded(stops, k + 1)

\* the energy of the first n segments of the path under check
RECURSIVE SegmentEnergies(_)
SegmentEnergies(n) ==
    IF n = 0 THEN 0
    ELSE LET path == shortestPathResult.path
             edge == FindEdge(shortestPathResult.edges, path[n], path[n + 1])
         IN calculateEnergyConsumption(edge.distance) + SegmentEnergies(n - 1)

\* the station the check charges at on a node: the first of the node's list
ChosenStation(nodeId) == checkStations.val[nodeId][1]

\* C24: a required stop, forced or defensive, fills the battery to the capacity,
\* records as energyAdded the capacity minus the level just before charging and as
\* chargingTime that energy divided by the chosen station's chargingSpeed; so the
\* battery is the capacity plus the energy added so far minus the energy of the
\* segments traversed so far
C24_BatteryAccounting ==
    pc \in {"check", "checked"} =>
        LET capacity == vehicle.batteryCapacity
            n == Len(chargingStops)
        IN /\ battery = capacity + SumEnergyAdded(chargingStops, 1) - SegmentEnergies(segIdx - 1)
           /\ \A k \in 1..n :
                  LET stop == chargingStops[k]
                      station == ChosenStation(stop.nodeId)
                  IN /\ stop.stationId = station.id
                     /\ stop.chargingTime.num * station.chargingSpeed
                            = stop.energyAdded * stop.chargingTime.den
           /\ (lastSegment.outcome = "traversed" /\ lastSegment.forced) =>
                  LET stop == chargingStops[IF lastSegment.defensive THEN n - 1 ELSE n]
                  IN /\ stop.nodeId = lastSegment.from
                     /\ stop.energyAdded = capacity - lastSegment.batteryBefore
                     /\ lastSegment.batteryAfterSegment = capacity - lastSegment.energyNeeded
           /\ (lastSegment.outcome = "traversed" /\ lastSegment.defensive) =>
                  /\ chargingStops[n].nodeId = lastSegment.to
                  /\ chargingStops[n].energyAdded = capacity - lastSegment.batteryAfterSegment
                  /\ battery = capacity

C24_Witness ==
    /\ pc = "checked"
    /\ feasibilityResult.feasible
    /\ lastSegment.outcome = "traversed"
    /\ lastSegment.forced
    /\ lastSegment.batteryBefore < vehicle.batteryCapacity
    /\ chargingStops /= <<>>
    /\ battery < vehicle.batteryCapacity


\* C25: whenever findPathWithChargingStations makes its second attempt, the radius
\* of that attempt is strictly larger than the radius of the first attempt, which
\* is the engine's maxDetourDistance
C25_RetryRadiusLarger ==
    attempt = "wide" => radiusUsed > maxDetourDistance


\* C26: in a feasible plan of checkPathFeasibility the required stops are listed in
\* the order of their nodes along the path, and no path node carries two of them
C26_OneStopPerNodeInPathOrder ==
    (pc = "checked" /\ feasibilityResult.feasible) =>
        LET stops == feasibilityResult.chargingStops
            path == shortestPathResult.path
        IN \A j, k \in 1..Len(stops) :
              j < k => IndexOf(path, stops[j].nodeId) < IndexOf(path, stops[k].nodeId)


\* the steps that call findNearbyChargingStations or return from the planning call
NearbyCall == pc \in {"searched", "checked"} /\ pc' \in {"check", "done", "responded"}

\* C27: a call of findNearbyChargingStations leaves nodeToChargingStation and the
\* station records stored in it as they were before the call
C27_LocatorReadOnly ==
    [][NearbyCall => nodeToChargingStation' = nodeToChargingStation]_vars


\* C28: in a successful findPath result no path node has both a required and an
\* optional stop, no path node has two optional stops, and every optional stop is
\* at a node of the returned path with chargingTime 0 and energyAdded 0
C28_OptionalStops ==
    Succeeded =>
        LET stops == result.chargingStops
        IN \A k \in 1..Len(stops) :
              stops[k].isOptional =>
                  /\ stops[k].nodeId \in Range(result.path)
                  /\ stops[k].chargingTime.num = 0
                  /\ stops[k].energyAdded = 0
                  /\ \A j \in 1..Len(stops) :
                        j /= k => stops[j].nodeId /= stops[k].nodeId

C28_Witness ==
    /\ Succeeded
    /\ \E j, k \in 1..Len(result.chargingStops) :
          /\ ~result.chargingStops[j].isOptional
          /\ result.chargingStops[k].isOptional


\* the 15-minute rest periods that calculateTripTime puts into the estimated time
\* of a trip of the given length: floor(drivingTime / 2) at 60 km/h
RestPeriods(totalDistance) == (totalDistance \div Phys(1)) \div 120

\* C30: the /route response lists as many rest stops as there are 15-minute rest
\* periods in its estimated trip time
C30_RestStopsMatchRestPeriods ==
    (pc = "responded" /\ plan /= "debugRoute" /\ response.success) =>
        Len(response.route.restStops) = RestPeriods(response.route.totalDistance)


\* a step in which some run is in progress before and after
DuringRun == RunInProgress /\ RunInProgress'

\* C29: in whatever state a progress query is served, a completion flag that is
\* true comes with no run in progress and a progress of 100, and while a run is in
\* progress the progress that queries report never decreases
C29_CrawlerProgress ==
    /\ [](isIndexingComplete => (~RunInProgress /\ indexingProgress = 100))
    /\ [][DuringRun => indexingProgress' >= indexingProgress]_vars

====
